---------------------------- MODULE Spec2Model ----------------------------
(***************************************************************************)
(* Model of the OCR full-text extractor (extractor.py, ocr_utils.py).      *)
(*                                                                         *)
(* Strings are sequences of one-character strings, so that split, strip,   *)
(* join, int() and the regular expression of the normalisation are         *)
(* computed character by character.  A code point outside ASCII is written *)
(* as its name, e.g. "U017F" for the long s.                               *)
(*                                                                         *)
(* Specifications:                                                         *)
(*   Spec      run_extraction, one step per statement that does I/O        *)
(*   SpecNorm  normalize_historical_characters applied repeatedly          *)
(*   SpecLinks extract_alto_links on a loaded manifest                     *)
(*   SpecAlto  extract_alto_text on a loaded page resource                 *)
(*   SpecMeta  extract_metadata_from_mets on a loaded manifest             *)
(***************************************************************************)
EXTENDS Integers, Sequences, FiniteSets, TLC

VARIABLES
    \* run_extraction
    pc, mets_path, output_dir, output_format, full, histlit,
    metadata, structure, alto_links, texts, i, loadLog, fs, raised,
    \* normalize_historical_characters
    text, normalized,
    \* extract_alto_links
    mets_files, links_result,
    \* extract_alto_text
    alto_root, normalize, alto_text,
    \* extract_metadata_from_mets
    mets_root, meta_result

pipeVars == <<pc, mets_path, output_dir, output_format, full, histlit,
              metadata, structure, alto_links, texts, i, loadLog, fs, raised>>
normVars == <<text, normalized>>
linkVars == <<mets_files, links_result>>
altoVars == <<alto_root, normalize, alto_text>>
metaVars == <<mets_root, meta_result>>
vars == <<pipeVars, normVars, linkVars, altoVars, metaVars>>

-----------------------------------------------------------------------------
(* Bounds of the model. *)

\* longest input string of normalize_historical_characters
MaxLen == 4
\* how often the normalisation is applied in a row
MaxApplications == 2
\* most file entries of a manifest's FULLTEXT group
MaxFiles == 3
\* most file entries of a manifest in a whole run of run_extraction
MaxPages == 2
\* most div elements of a manifest's logical structMap in a whole run
MaxDivs == 1
\* most TextLine elements of a page resource, most String elements of a line
MaxLines == 2
MaxWords == 2

-----------------------------------------------------------------------------
(* Python string primitives. *)

\* a join that puts the separator behind every part, the last one too
RECURSIVE JoinTrailing(_, _)
JoinTrailing(sep, parts) ==
    IF parts = <<>> THEN <<>>
    ELSE Head(parts) \o sep \o JoinTrailing(sep, Tail(parts))

\* sep.join(parts)
RECURSIVE Join(_, _)
Join(sep, parts) ==
    IF parts = <<>> THEN <<>>
    ELSE IF Len(parts) = 1 THEN Head(parts)
    ELSE Head(parts) \o sep \o Join(sep, Tail(parts))

\* str.isspace() of one character, which is also what \s matches
IsSpace(c) == c \in {" ", "\t", "\n", "\r", "U000B", "U000C", "U00A0"}

RECURSIVE LStrip(_)
LStrip(s) ==
    IF s # <<>> /\ IsSpace(Head(s)) THEN LStrip(Tail(s)) ELSE s

RECURSIVE RStrip(_)
RStrip(s) ==
    IF s # <<>> /\ IsSpace(s[Len(s)]) THEN RStrip(SubSeq(s, 1, Len(s) - 1)) ELSE s

\* str.strip()
Strip(s) == RStrip(LStrip(s))

\* all sequences over S of length at most n
SeqUpTo(S, n) == UNION {[1..k -> S] : k \in 0..n}

-----------------------------------------------------------------------------
(* ocr_utils.normalize_historical_characters *)

\* the dict of line 62, in insertion order
replacements ==
    << <<"U017F", <<"s">> >>,
       <<"UA75B", <<"r">> >>,
       <<"U00E6", <<"a", "e">> >>,
       <<"U00C6", <<"A", "e">> >>,
       <<"U0153", <<"o", "e">> >>,
       <<"U0152", <<"O", "e">> >>,
       <<"UFB00", <<"f", "f">> >>,
       <<"UFB01", <<"f", "i">> >>,
       <<"UFB02", <<"f", "l">> >>,
       <<"UFB03", <<"f", "f", "i">> >>,
       <<"UFB04", <<"f", "f", "l">> >>,
       <<"UA7B5", <<"U00DF">> >> >>

\* text.replace(old, new) for a one-character old
RECURSIVE Replace(_, _, _)
Replace(s, old, new) ==
    IF s = <<>> THEN <<>>
    ELSE (IF Head(s) = old THEN new ELSE <<Head(s)>>) \o Replace(Tail(s), old, new)

\* the loop of lines 70-71 from table entry k on
RECURSIVE ReplaceAll(_, _)
ReplaceAll(s, k) ==
    IF k > Len(replacements) THEN s
    ELSE ReplaceAll(Replace(s, replacements[k][1], replacements[k][2]), k + 1)

IsPunct(c) == c \in {".", ",", ";", ":", "!", "?"}

\* length of the run of whitespace that s starts with
RECURSIVE SpaceRun(_)
SpaceRun(s) ==
    IF s # <<>> /\ IsSpace(Head(s)) THEN 1 + SpaceRun(Tail(s)) ELSE 0

\* a buggy pattern \s([.,;:!?]): one whitespace character only
RECURSIVE SubSpaceBeforePunctOne(_)
SubSpaceBeforePunctOne(s) ==
    IF s = <<>> THEN <<>>
    ELSE IF Len(s) >= 2 /\ IsSpace(s[1]) /\ IsPunct(s[2])
         THEN <<s[2]>> \o SubSpaceBeforePunctOne(SubSeq(s, 3, Len(s)))
         ELSE <<Head(s)>> \o SubSpaceBeforePunctOne(Tail(s))

\* re.sub(r"\s+([.,;:!?])", r"\1", s): leftmost, greedy, non-overlapping.  At a
\* whitespace character the greedy \s+ takes the whole run; a shorter run is
\* followed by whitespace, never by a punctuation mark, so backtracking adds no
\* match.
RECURSIVE SubSpaceBeforePunct(_)
SubSpaceBeforePunct(s) ==
    IF s = <<>> THEN <<>>
    ELSE LET n == SpaceRun(s) IN
         IF n > 0 /\ n < Len(s) /\ IsPunct(s[n + 1])
         THEN <<s[n + 1]>> \o SubSpaceBeforePunct(SubSeq(s, n + 2, Len(s)))
         ELSE <<Head(s)>> \o SubSpaceBeforePunct(Tail(s))

normalize_historical_characters(t) ==
    Strip(SubSpaceBeforePunct(ReplaceAll(t, 1)))

\* the characters the inputs of SpecNorm are made of: table glyphs, a plain
\* letter, two kinds of whitespace, two punctuation marks
NormAlphabet == {"U017F", "UFB03", "UA7B5", "s", " ", "\n", ".", ","}

-----------------------------------------------------------------------------
(* extractor.extract_alto_links *)

\* the characters of the identifiers below, in code point order
CodePointOrder ==
    <<"0", "1", "2", "A", "C", "E", "F", "I", "L", "O", "R", "V", "_">>

Ord(c) == CHOOSE x \in 1..Len(CodePointOrder) : CodePointOrder[x] = c

IsDigit(c) == c \in {"0", "1", "2", "3", "4", "5", "6", "7", "8", "9"}

DigitValue(c) ==
    CASE c = "0" -> 0 [] c = "1" -> 1 [] c = "2" -> 2 [] c = "3" -> 3
      [] c = "4" -> 4 [] c = "5" -> 5 [] c = "6" -> 6 [] c = "7" -> 7
      [] c = "8" -> 8 [] c = "9" -> 9

\* s.split("_")[-1]: what follows the last "_", the whole string without one
RECURSIVE LastField(_)
LastField(s) ==
    IF \E x \in 1..Len(s) : s[x] = "_"
    THEN LastField(Tail(s))
    ELSE s

\* whether int(s) returns, for s of letters, digits and "_"
IntParses(s) == s # <<>> /\ \A x \in 1..Len(s) : IsDigit(s[x])

RECURSIVE IntValue(_)
IntValue(s) ==
    IF s = <<>> THEN 0
    ELSE 10 * IntValue(SubSeq(s, 1, Len(s) - 1)) + DigitValue(s[Len(s)])

\* sort_key(item), lines 86-90: an int, or the identifier itself
sort_key(item) ==
    IF IntParses(LastField(item.ID))
    THEN [kind |-> "int", int |-> IntValue(LastField(item.ID)), str |-> <<>>]
    ELSE [kind |-> "str", int |-> 0, str |-> item.ID]

\* a < b on Python strings
RECURSIVE StrLess(_, _)
StrLess(a, b) ==
    IF b = <<>> THEN FALSE
    ELSE IF a = <<>> THEN TRUE
    ELSE IF Head(a) # Head(b) THEN Ord(Head(a)) < Ord(Head(b))
    ELSE StrLess(Tail(a), Tail(b))

\* a < b on two keys of the same type
KeyLess(a, b) ==
    IF a.kind = "int" THEN a.int < b.int ELSE StrLess(a.str, b.str)

\* list.sort compares keys with <; an int and a str do not compare
SortRaises(items) ==
    \E x, j \in 1..Len(items) : sort_key(items[x]).kind # sort_key(items[j]).kind

\* x put behind every element that is not greater: the sort is stable
RECURSIVE InsertSorted(_, _)
InsertSorted(x, sorted) ==
    IF sorted = <<>> THEN <<x>>
    ELSE IF KeyLess(sort_key(x), sort_key(Head(sorted)))
         THEN <<x>> \o sorted
         ELSE <<Head(sorted)>> \o InsertSorted(x, Tail(sorted))

RECURSIVE SortFrom(_, _)
SortFrom(items, sorted) ==
    IF items = <<>> THEN sorted
    ELSE SortFrom(Tail(items), InsertSorted(Head(items), sorted))

\* files.sort(key=sort_key), line 92, when it returns
SortFiles(items) == SortFrom(items, <<>>)

\* the loop of lines 77-84: entries with an FLocat child and a non-empty href
RECURSIVE CollectFiles(_)
CollectFiles(file_elems) ==
    IF file_elems = <<>> THEN <<>>
    ELSE LET e == Head(file_elems) IN
         (IF e.flocat /\ e.href # <<>> THEN <<[ID |-> e.ID, href |-> e.href]>> ELSE <<>>)
             \o CollectFiles(Tail(file_elems))

Hrefs(items) == [x \in 1..Len(items) |-> items[x].href]

\* lines 75-94, given the loaded tree's FULLTEXT file elements
extract_alto_links(file_elems) ==
    LET files == CollectFiles(file_elems) IN
    IF SortRaises(files)
    THEN [status |-> "TypeError", links |-> <<>>]
    ELSE [status |-> "ok", links |-> Hrefs(SortFiles(files))]

FILE_0001 == <<"F", "I", "L", "E", "_", "0", "0", "0", "1">>
FILE_0002 == <<"F", "I", "L", "E", "_", "0", "0", "0", "2">>
FILE_0010 == <<"F", "I", "L", "E", "_", "0", "0", "1", "0">>
FILE_1 == <<"F", "I", "L", "E", "_", "1">>
COVER == <<"C", "O", "V", "E", "R">>
FILE_A == <<"F", "I", "L", "E", "_", "A">>

\* identifiers of file elements; <<>> is a file element without an ID attribute
FileIds == {FILE_0001, FILE_0002, FILE_0010, FILE_1, COVER, FILE_A, <<>>}

\* the address of the file element at position k of the manifest
Address(k) == <<"alto", k>>

\* a file element: with an FLocat child carrying an address, with one whose
\* href is empty, or without FLocat
FileElems(k) ==
    {[ID |-> id, flocat |-> f, href |-> h] :
        id \in FileIds,
        f \in BOOLEAN,
        h \in {<<>>, Address(k)}} \ {[ID |-> id, flocat |-> FALSE, href |-> Address(k)] : id \in FileIds}

\* the FULLTEXT groups of at most n file elements
Manifests(n) ==
    UNION {{m \in [1..k -> UNION {FileElems(j) : j \in 1..k}] :
               \A j \in 1..k : m[j] \in FileElems(j)} : k \in 0..n}

-----------------------------------------------------------------------------
(* ocr_utils.extract_alto_text *)

\* the namespace the queries of extract_alto_text are qualified with (line 42)
AltoNs == "alto-v4"

\* root.findall(".//<ns>:<tag>"): the elements of that namespace, in document
\* order; ns = "none" is the unqualified query
FindAll(elems, ns) == SelectSeq(elems, LAMBDA e : e.ns = ns)

\* line 47: the String elements under a line, found by the qualified query only
WordsOfLine(line_elem) == FindAll(line_elem.words, AltoNs)

\* line 46: the qualified query, or the unqualified one when it finds nothing
FindTextLines(root) ==
    IF FindAll(root.lines, AltoNs) # <<>>
    THEN FindAll(root.lines, AltoNs)
    ELSE FindAll(root.lines, "none")

\* lines 47-48
LineText(line_elem) ==
    LET words == [x \in 1..Len(WordsOfLine(line_elem)) |-> WordsOfLine(line_elem)[x].CONTENT]
    IN  Join(<<" ">>, SelectSeq(words, LAMBDA w : w # <<>>))

\* lines 42-53
extract_alto_text(root, norm) ==
    LET found == FindTextLines(root)
        lines == [x \in 1..Len(found) |->
                     IF norm THEN normalize_historical_characters(LineText(found[x]))
                     ELSE LineText(found[x])]
    IN  Join(<<"\n">>, lines)

\* CONTENT attributes of String elements; <<>> is an absent or empty attribute
WordContents == {<<>>, <<"a">>, <<"U017F">>, <<".">>}

\* namespaces of a page resource: the one queried, none, another ALTO version
Namespaces == {AltoNs, "none", "alto-v2"}

\* page resources whose elements all carry the namespace the root declares
AltoDocs(ns, nLines, nWords) ==
    LET Words == {[ns |-> ns, CONTENT |-> c] : c \in WordContents}
        Lines == {[ns |-> ns, words |-> ws] : ws \in SeqUpTo(Words, nWords)}
    IN  {[ns |-> ns, lines |-> ls] : ls \in SeqUpTo(Lines, nLines)}

-----------------------------------------------------------------------------
(* extractor.extract_metadata_from_mets *)

\* str.upper() of a character of "vd16", "vd17", "vd18"
Upper(c) == CASE c = "v" -> "V" [] c = "d" -> "D" [] OTHER -> c

UpperStr(s) == [x \in 1..Len(s) |-> Upper(s[x])]

\* "elem is not None and elem.text": an element without text has text None
HasText(elem) == elem.present /\ elem.text # <<>>

\* the if/else of lines 31-37, 40-46 and 49-55
FieldText(primary, fallback) ==
    IF HasText(primary) THEN Strip(primary.text)
    ELSE IF HasText(fallback) THEN Strip(fallback.text)
    ELSE <<>>

vd_types == << <<"v", "d", "1", "6">>, <<"v", "d", "1", "7">>, <<"v", "d", "1", "8">> >>

\* the loop of lines 58-62 from variant k on
RECURSIVE VdNumber(_, _)
VdNumber(identifiers, k) ==
    IF k > Len(vd_types) THEN <<>>
    ELSE IF HasText(identifiers[k])
         THEN UpperStr(vd_types[k]) \o <<" ">> \o Strip(identifiers[k].text)
         ELSE VdNumber(identifiers, k + 1)

\* lines 25-64, on the tree that loaded; each field of root is the first
\* element its path finds
ExtractMetadata(root) ==
    [title |-> FieldText(root.mods_title, root.dc_title),
     author |-> FieldText(root.mods_displayForm, root.dc_creator),
     year |-> FieldText(root.mods_dateIssued, root.dc_date),
     vd_number |-> VdNumber(root.identifiers, 1)]

\* line 17: the record returned when the manifest does not load
EmptyMetadata == [title |-> <<>>, author |-> <<>>, year |-> <<>>, vd_number |-> <<>>]

\* what find() returns for a path: no element, an element without text, one
\* with whitespace only, one with text in whitespace
NoElem == [present |-> FALSE, text |-> <<>>]

ElemWith(t) == [present |-> TRUE, text |-> t]

Elems(c) == {NoElem, ElemWith(<<>>), ElemWith(<<" ">>), ElemWith(<<" ", c, " ">>)}

\* fewer cases, for the paths of author and year
ElemsFew(c) == {NoElem, ElemWith(<<" ">>), ElemWith(<<c>>)}

MetsRoots ==
    [mods_title : Elems("T"), dc_title : Elems("t"),
     mods_displayForm : ElemsFew("A"), dc_creator : ElemsFew("a"),
     mods_dateIssued : ElemsFew("Y"), dc_date : ElemsFew("y"),
     identifiers : [1..3 -> Elems("9")]]

-----------------------------------------------------------------------------
(* extractor.extract_structure *)

\* str.isdigit() for a string of ASCII characters
IsDigits(s) == s # <<>> /\ \A k \in 1..Len(s) : IsDigit(s[k])

\* lines 112-119 for one div; the order is <<n>> for an int and <<>> for None
StructureNode(div) ==
    [order |-> IF IsDigits(div.ORDER) THEN <<IntValue(div.ORDER)>> ELSE <<>>,
     type |-> div.TYPE,
     label |-> div.LABEL]

\* lines 110-119: the divs with a type or a label, in document order
RECURSIVE ExtractStructure(_)
ExtractStructure(struct_divs) ==
    IF struct_divs = <<>> THEN <<>>
    ELSE (IF Head(struct_divs).TYPE # <<>> \/ Head(struct_divs).LABEL # <<>>
          THEN <<StructureNode(Head(struct_divs))>> ELSE <<>>)
             \o ExtractStructure(Tail(struct_divs))

\* divs of a logical structMap: one with order, type and label, one with a
\* label and an ORDER that is no number, one with neither type nor label
Divs ==
    {[ORDER |-> <<"1", "2">>, TYPE |-> <<"c">>, LABEL |-> <<"I">>],
     [ORDER |-> <<"x">>, TYPE |-> <<>>, LABEL |-> <<"L">>],
     [ORDER |-> <<>>, TYPE |-> <<>>, LABEL |-> <<>>]}

-----------------------------------------------------------------------------
(* extractor.extract_all_texts, save_full_output, save_pagewise_output *)

DigitChars == <<"0", "1", "2", "3", "4", "5", "6", "7", "8", "9">>

\* the decimal digits of n >= 0
RECURSIVE Digits(_)
Digits(n) ==
    IF n < 10 THEN <<DigitChars[n + 1]>>
    ELSE Digits(n \div 10) \o <<DigitChars[(n % 10) + 1]>>

\* zeros in front of s up to width w
RECURSIVE ZeroPad(_, _)
ZeroPad(s, w) == IF Len(s) >= w THEN s ELSE ZeroPad(<<"0">> \o s, w)

\* f"page_{n:04d}", lines 134 and 138
PageKey(n) == <<"p", "a", "g", "e", "_">> \o ZeroPad(Digits(n), 4)

\* d[key] = value on a dict kept in insertion order
DictSet(d, key, value) ==
    IF \E k \in 1..Len(d) : d[k].page = key
    THEN [k \in 1..Len(d) |-> IF d[k].page = key THEN [page |-> key, text |-> value] ELSE d[k]]
    ELSE Append(d, [page |-> key, text |-> value])

\* texts.values()
Values(d) == [k \in 1..Len(d) |-> d[k].text]

\* os.path.basename(path); a path is the sequence of its names
Basename(path) == path[Len(path)]

\* os.path.splitext(name)[0]: the name up to its last dot, the whole name when
\* it has none or only a leading one
Stem(name) ==
    LET dots == {k \in 2..Len(name) : name[k] = "."}
    IN  IF dots = {} THEN name
        ELSE SubSeq(name, 1, (CHOOSE k \in dots : \A j \in dots : j <= k) - 1)

\* a format name as characters
Ext(fmt) ==
    CASE fmt = "txt" -> <<"t", "x", "t">>
      [] fmt = "md" -> <<"m", "d">>
      [] fmt = "json" -> <<"j", "s", "o", "n">>

\* line 173
Separator(fmt) ==
    IF fmt = "md" THEN <<"\n", "\n", "-", "-", "-", "\n", "\n">> ELSE <<"\n", "\n">>

\* lines 160-169 and 201-210: the record of one page
PageRecord(d, k, meta) ==
    [page |-> d[k].page,
     order |-> k,
     text |-> d[k].text,
     title |-> meta.title,
     author |-> meta.author,
     year |-> meta.year,
     vd_number |-> meta.vd_number,
     source |-> IF meta.mets_path # <<>> THEN Basename(meta.mets_path) ELSE <<>>]

\* line 154: "if structure", with the metadata counted in
HasSummaryWithMetadata(struct, meta) ==
    \/ struct # <<>>
    \/ meta.title # <<>> \/ meta.author # <<>> \/ meta.year # <<>> \/ meta.vd_number # <<>>

\* lines 154 and 191: "if structure"
HasSummary(struct, meta) == struct # <<>>

\* lines 152-169: the list that json.dump writes
CombinedJson(d, struct, meta) ==
    (IF HasSummary(struct, meta) THEN <<[structure |-> struct]>> ELSE <<>>)
        \o [k \in 1..Len(d) |-> PageRecord(d, k, meta)]

\* sep.join with the separator behind every page
FullContentTrailing(d, fmt, struct, meta) ==
    IF fmt = "json" THEN CombinedJson(d, struct, meta)
    ELSE JoinTrailing(Separator(fmt), Values(d))

\* lines 151-176: what save_full_output writes
FullContent(d, fmt, struct, meta) ==
    IF fmt = "json" THEN CombinedJson(d, struct, meta)
    ELSE Join(Separator(fmt), Values(d))

\* lines 199-216: what save_pagewise_output writes for page k
PageContent(d, k, fmt, meta) ==
    IF fmt = "json" THEN PageRecord(d, k, meta) ELSE d[k].text

\* line 260
FullPath(dir, path, fmt) ==
    dir \o <<Stem(Basename(path))
                \o <<"_", "v", "o", "l", "l", "t", "e", "x", "t", ".">> \o Ext(fmt)>>

\* line 263
PageDir(dir, path) ==
    dir \o <<Stem(Basename(path)) \o <<"_", "p", "a", "g", "e", "s">> >>

\* lines 200 and 214
PagePath(dir, page, fmt) == dir \o <<page \o <<".">> \o Ext(fmt)>>

\* line 192
ContentPath(dir) ==
    dir \o << <<"c", "o", "n", "t", "e", "n", "t", ".", "j", "s", "o", "n">> >>

\* open(path, "w") and a complete write: the file is created or replaced
FsWrite(files, path, content) ==
    IF \E k \in 1..Len(files) : files[k].path = path
    THEN [k \in 1..Len(files) |->
             IF files[k].path = path THEN [path |-> path, content |-> content] ELSE files[k]]
    ELSE Append(files, [path |-> path, content |-> content])

NotRaised == [type |-> "none", at |-> "none"]

-----------------------------------------------------------------------------
(* Idle values of the variables a specification does not use. *)

PipeIdle ==
    /\ pc = "idle" /\ mets_path = <<>> /\ output_dir = <<>>
    /\ output_format = "txt" /\ full = TRUE /\ histlit = FALSE
    /\ metadata = EmptyMetadata /\ structure = <<>> /\ alto_links = <<>>
    /\ texts = <<>> /\ i = 0 /\ loadLog = <<>> /\ fs = <<>> /\ raised = NotRaised
NormIdle == text = <<>> /\ normalized = <<>>
LinksIdle == mets_files = <<>> /\ links_result = [status |-> "idle", links |-> <<>>]
AltoIdle ==
    /\ alto_root = [ns |-> "none", lines |-> <<>>]
    /\ normalize = FALSE
    /\ alto_text = [status |-> "idle", text |-> <<>>]
MetaIdle ==
    /\ mets_root = <<>>
    /\ meta_result = [status |-> "idle", metadata |-> EmptyMetadata]

-----------------------------------------------------------------------------
(* Spec: run_extraction.  load_xml either raises or returns a tree; which, and *)
(* the tree, is the environment's choice at every call.                      *)

\* the manifest address and destination of a run; <<>> is the empty string
MetsPath == << <<"i", "n">>, <<"b", ".", "x", "m", "l">> >>

OutputDir == << <<"o", "u", "t">> >>

\* manifests' bibliographic sections: none, a title only, all four fields
\* with a primary title of whitespace only
PipeMetsRoots ==
    {[mods_title |-> NoElem, dc_title |-> NoElem,
      mods_displayForm |-> NoElem, dc_creator |-> NoElem,
      mods_dateIssued |-> NoElem, dc_date |-> NoElem,
      identifiers |-> <<NoElem, NoElem, NoElem>>],
     [mods_title |-> ElemWith(<<" ">>), dc_title |-> ElemWith(<<"t">>),
      mods_displayForm |-> NoElem, dc_creator |-> ElemWith(<<"a">>),
      mods_dateIssued |-> ElemWith(<<"Y">>), dc_date |-> NoElem,
      identifiers |-> <<NoElem, ElemWith(<<"9">>), NoElem>>]}

\* identifiers of the manifests of a run
PipeFileIds == {FILE_0002, FILE_0010, COVER}

PipeManifests ==
    {m \in Manifests(MaxPages) : \A k \in 1..Len(m) : m[k].ID \in PipeFileIds /\ m[k].flocat}

\* page resources of a run: one of two lines, one of one line
PipeAltoDocs ==
    {[ns |-> AltoNs,
      lines |-> << [ns |-> AltoNs, words |-> << [ns |-> AltoNs, CONTENT |-> <<"U017F">>],
                                                [ns |-> AltoNs, CONTENT |-> <<".">>] >>],
                   [ns |-> AltoNs, words |-> << [ns |-> AltoNs, CONTENT |-> <<"a">>] >>] >>],
     [ns |-> AltoNs,
      lines |-> << [ns |-> AltoNs, words |-> << [ns |-> AltoNs, CONTENT |-> <<"a">>] >>] >>]}

\* what load_xml left behind when it raised
NoTree == [ns |-> "raised", lines |-> <<>>]

Init ==
    /\ pc = "validate"
    /\ mets_path \in {<<>>, MetsPath}
    /\ output_dir \in {<<>>, OutputDir}
    /\ output_format \in {"txt", "md", "json"}
    /\ full \in BOOLEAN
    /\ histlit \in BOOLEAN
    /\ metadata = EmptyMetadata
    /\ structure = <<>>
    /\ alto_links = <<>>
    /\ texts = <<>>
    /\ i = 0
    /\ loadLog = <<>>
    /\ fs = <<>>
    /\ raised = NotRaised
    /\ NormIdle /\ LinksIdle /\ AltoIdle /\ MetaIdle

\* the variables of the other specifications
idleVars == <<normVars, linkVars, altoVars, metaVars>>

Logged(source, by, ok, tree) ==
    Append(loadLog, [source |-> source, by |-> by, ok |-> ok, tree |-> tree])

\* lines 234-237
Validate ==
    /\ UNCHANGED idleVars
    /\ pc = "validate"
    /\ IF mets_path = <<>> \/ output_dir = <<>>
       THEN pc' = "raised" /\ raised' = [type |-> "ValueError", at |-> "validate"]
       ELSE pc' = "metadata" /\ UNCHANGED raised
    /\ UNCHANGED <<mets_path, output_dir, output_format, full, histlit, metadata,
                   structure, alto_links, texts, i, loadLog, fs>>

\* lines 246-248: extract_metadata_from_mets, whose load_xml may raise
Metadata ==
    /\ UNCHANGED idleVars
    /\ pc = "metadata"
    /\ \/ /\ metadata' = EmptyMetadata
          /\ loadLog' = Logged("mets", "extract_metadata_from_mets", FALSE, NoTree)
       \/ \E root \in PipeMetsRoots :
             /\ metadata' = ExtractMetadata(root)
             /\ loadLog' = Logged("mets", "extract_metadata_from_mets", TRUE, NoTree)
    /\ pc' = "structure"
    /\ UNCHANGED <<mets_path, output_dir, output_format, full, histlit,
                   structure, alto_links, texts, i, fs, raised>>

\* line 251: extract_structure, whose load_xml may raise
Structure ==
    /\ UNCHANGED idleVars
    /\ pc = "structure"
    /\ \/ /\ structure' = <<>>
          /\ loadLog' = Logged("mets", "extract_structure", FALSE, NoTree)
       \/ \E struct_divs \in SeqUpTo(Divs, MaxDivs) :
             /\ structure' = ExtractStructure(struct_divs)
             /\ loadLog' = Logged("mets", "extract_structure", TRUE, NoTree)
    /\ pc' = "links"
    /\ UNCHANGED <<mets_path, output_dir, output_format, full, histlit,
                   metadata, alto_links, texts, i, fs, raised>>

\* lines 254 and 127: extract_alto_links re-raises what load_xml raises, and
\* nothing catches what files.sort raises
Links ==
    /\ UNCHANGED idleVars
    /\ pc = "links"
    /\ \/ /\ loadLog' = Logged("mets", "extract_alto_links", FALSE, NoTree)
          /\ raised' = [type |-> "LoadFailure", at |-> "extract_alto_links"]
          /\ pc' = "raised"
          /\ UNCHANGED <<alto_links, i>>
       \/ \E m \in PipeManifests :
             LET r == extract_alto_links(m) IN
             /\ loadLog' = Logged("mets", "extract_alto_links", TRUE, NoTree)
             /\ IF r.status = "ok"
                THEN /\ alto_links' = r.links
                     /\ i' = 1
                     /\ pc' = IF r.links = <<>> THEN "makedirs" ELSE "pages"
                     /\ UNCHANGED raised
                ELSE /\ raised' = [type |-> r.status, at |-> "extract_alto_links"]
                     /\ pc' = "raised"
                     /\ UNCHANGED <<alto_links, i>>
    /\ UNCHANGED <<mets_path, output_dir, output_format, full, histlit,
                   metadata, structure, texts, fs>>

\* the except branch of lines 136-138 without its assignment: the failed page
\* gets no entry
PageFailsDropping ==
    /\ loadLog' = Logged(alto_links[i], "extract_all_texts", FALSE, NoTree)
    /\ i' = i + 1
    /\ pc' = IF i = Len(alto_links) THEN "makedirs" ELSE "pages"
    /\ UNCHANGED <<texts, raised>>

\* the except branch with a second attempt at the load before giving up
PageFailsRetrying ==
    /\ loadLog' = Append(Logged(alto_links[i], "extract_all_texts", FALSE, NoTree),
                         [source |-> alto_links[i], by |-> "extract_all_texts",
                          ok |-> FALSE, tree |-> NoTree])
    /\ texts' = DictSet(texts, PageKey(i), <<>>)
    /\ i' = i + 1
    /\ pc' = IF i = Len(alto_links) THEN "makedirs" ELSE "pages"
    /\ UNCHANGED raised

\* the except branch of lines 136-138 re-raising instead of absorbing
PageFailsRaising ==
    /\ loadLog' = Logged(alto_links[i], "extract_all_texts", FALSE, NoTree)
    /\ raised' = [type |-> "LoadFailure", at |-> "extract_all_texts"]
    /\ pc' = "raised"
    /\ UNCHANGED <<texts, i>>

\* lines 136-138: the page's load or extraction raised
PageFails ==
    /\ loadLog' = Logged(alto_links[i], "extract_all_texts", FALSE, NoTree)
    /\ texts' = DictSet(texts, PageKey(i), <<>>)
    /\ i' = i + 1
    /\ pc' = IF i = Len(alto_links) THEN "makedirs" ELSE "pages"
    /\ UNCHANGED raised

\* lines 132-135
PageLoads(alto_root_) ==
    /\ loadLog' = Logged(alto_links[i], "extract_all_texts", TRUE, alto_root_)
    /\ texts' = DictSet(texts, PageKey(i), extract_alto_text(alto_root_, ~histlit))
    /\ i' = i + 1
    /\ pc' = IF i = Len(alto_links) THEN "makedirs" ELSE "pages"
    /\ UNCHANGED raised

\* one pass of the loop of lines 130-138
Page ==
    /\ UNCHANGED idleVars
    /\ pc = "pages"
    /\ \/ PageFails
       \/ \E tree \in PipeAltoDocs : PageLoads(tree)
    /\ UNCHANGED <<mets_path, output_dir, output_format, full, histlit,
                   metadata, structure, alto_links, fs>>

\* line 257
Makedirs ==
    /\ UNCHANGED idleVars
    /\ pc = "makedirs"
    /\ \/ /\ pc' = IF full THEN "save_full" ELSE "pagewise_makedirs"
          /\ UNCHANGED raised
       \/ /\ pc' = "raised"
          /\ raised' = [type |-> "WriteFailure", at |-> "makedirs"]
    /\ UNCHANGED <<mets_path, output_dir, output_format, full, histlit, metadata,
                   structure, alto_links, texts, i, loadLog, fs>>

\* the metadata as run_extraction hands it on (line 248)
MetadataWithPath == [title |-> metadata.title, author |-> metadata.author,
                     year |-> metadata.year, vd_number |-> metadata.vd_number,
                     mets_path |-> mets_path]

\* save_full_output leaving an empty file behind when it raises
SaveFullLeavingFile ==
    /\ UNCHANGED idleVars
    /\ pc = "save_full"
    /\ \/ /\ fs' = FsWrite(fs, FullPath(output_dir, mets_path, output_format),
                           FullContent(texts, output_format, structure, MetadataWithPath))
          /\ pc' = "done"
          /\ UNCHANGED raised
       \/ /\ pc' = "raised"
          /\ raised' = [type |-> "WriteFailure", at |-> "save_full_output"]
          /\ fs' = FsWrite(fs, FullPath(output_dir, mets_path, output_format), <<>>)
    /\ UNCHANGED <<mets_path, output_dir, output_format, full, histlit, metadata,
                   structure, alto_links, texts, i, loadLog>>

\* lines 260-261: save_full_output; open() raises or the file is written
SaveFull ==
    /\ UNCHANGED idleVars
    /\ pc = "save_full"
    /\ \/ /\ fs' = FsWrite(fs, FullPath(output_dir, mets_path, output_format),
                           FullContent(texts, output_format, structure, MetadataWithPath))
          /\ pc' = "done"
          /\ UNCHANGED raised
       \/ /\ pc' = "raised"
          /\ raised' = [type |-> "WriteFailure", at |-> "save_full_output"]
          /\ UNCHANGED fs
    /\ UNCHANGED <<mets_path, output_dir, output_format, full, histlit, metadata,
                   structure, alto_links, texts, i, loadLog>>

\* line 188
PagewiseMakedirs ==
    /\ UNCHANGED idleVars
    /\ pc = "pagewise_makedirs"
    /\ \/ /\ pc' = IF output_format = "json" /\ HasSummary(structure, MetadataWithPath)
                   THEN "pagewise_content"
                   ELSE IF texts = <<>> THEN "done" ELSE "pagewise_pages"
          /\ i' = 1
          /\ UNCHANGED raised
       \/ /\ pc' = "raised"
          /\ raised' = [type |-> "WriteFailure", at |-> "pagewise_makedirs"]
          /\ UNCHANGED i
    /\ UNCHANGED <<mets_path, output_dir, output_format, full, histlit, metadata,
                   structure, alto_links, texts, loadLog, fs>>

\* lines 191-195
PagewiseContent ==
    /\ UNCHANGED idleVars
    /\ pc = "pagewise_content"
    /\ \/ /\ fs' = FsWrite(fs, ContentPath(PageDir(output_dir, mets_path)),
                           [content |-> structure])
          /\ pc' = IF texts = <<>> THEN "done" ELSE "pagewise_pages"
          /\ UNCHANGED raised
       \/ /\ pc' = "raised"
          /\ raised' = [type |-> "WriteFailure", at |-> "pagewise_content"]
          /\ UNCHANGED fs
    /\ UNCHANGED <<mets_path, output_dir, output_format, full, histlit, metadata,
                   structure, alto_links, texts, i, loadLog>>

\* one pass of the loop of lines 198-217
PagewisePage ==
    /\ UNCHANGED idleVars
    /\ pc = "pagewise_pages"
    /\ \/ /\ fs' = FsWrite(fs, PagePath(PageDir(output_dir, mets_path), texts[i].page,
                                        output_format),
                           PageContent(texts, i, output_format, MetadataWithPath))
          /\ i' = i + 1
          /\ pc' = IF i = Len(texts) THEN "done" ELSE "pagewise_pages"
          /\ UNCHANGED raised
       \/ /\ pc' = "raised"
          /\ raised' = [type |-> "WriteFailure", at |-> "pagewise_pages"]
          /\ UNCHANGED <<fs, i>>
    /\ UNCHANGED <<mets_path, output_dir, output_format, full, histlit, metadata,
                   structure, alto_links, texts, loadLog>>

Next ==
    \/ Validate
    \/ Metadata
    \/ Structure
    \/ Links
    \/ Page
    \/ Makedirs
    \/ SaveFull
    \/ PagewiseMakedirs
    \/ PagewiseContent
    \/ PagewisePage

Spec == Init /\ [][Next]_vars

-----------------------------------------------------------------------------
(* Properties of run_extraction. *)

\* extract_all_texts has returned
TextsReturned ==
    \/ pc \in {"makedirs", "save_full", "pagewise_makedirs", "pagewise_content",
               "pagewise_pages", "done"}
    \/ pc = "raised" /\ raised.type = "WriteFailure"

\* the loads of page resources, in the order they were made
PageLoadLog == SelectSeq(loadLog, LAMBDA e : e.by = "extract_all_texts")

\* the loads of the manifest, in the order they were made
MetsLoadLog == SelectSeq(loadLog, LAMBDA e : e.source = "mets")

\* C1: when extract_all_texts has returned for N resolved locators, texts has
\* exactly N entries; entry k has the key "page_" followed by four digits of
\* value k; it is the empty string when the load or extraction of page k
\* failed and the text extracted from the k-th locator's tree otherwise.
C1_OneEntryPerLocator ==
    TextsReturned =>
        /\ Len(texts) = Len(alto_links)
        /\ Len(PageLoadLog) = Len(alto_links)
        /\ \A k \in 1..Len(texts) :
              /\ SubSeq(texts[k].page, 1, 5) = <<"p", "a", "g", "e", "_">>
              /\ Len(texts[k].page) = 9
              /\ IsDigits(SubSeq(texts[k].page, 6, 9))
              /\ IntValue(SubSeq(texts[k].page, 6, 9)) = k
              /\ PageLoadLog[k].source = alto_links[k]
              /\ ~PageLoadLog[k].ok => texts[k].text = <<>>
              /\ PageLoadLog[k].ok =>
                    texts[k].text = extract_alto_text(PageLoadLog[k].tree, ~histlit)

\* C1 witness: a run over two locators has finished; the first page failed
\* and the second page has text.
C1_Witness ==
    /\ pc = "done"
    /\ Len(alto_links) = 2
    /\ ~PageLoadLog[1].ok
    /\ PageLoadLog[2].ok
    /\ texts[2].text # <<>>

\* C3: a failed page never raises out of the run: after a page failure the run
\* is still extracting or writing, or it ended, and if it was aborted then by
\* a write failure, that is at the output-writing step.  A failed manifest
\* load in locator extraction leaves the run aborted with that failure and no
\* file written.  A failed manifest load in metadata extraction leaves the
\* all-empty metadata record, one in structure extraction the empty structure
\* list, and the run goes on to the next step.  While pages are extracted
\* there is a next locator to go on with.
C3_FailurePolicy ==
    /\ pc = "pages" => i \in 1..Len(alto_links)
    /\ \A k \in 1..Len(loadLog) :
           ~loadLog[k].ok =>
               /\ loadLog[k].by = "extract_all_texts" =>
                     /\ pc \in {"pages", "makedirs", "save_full", "pagewise_makedirs",
                                "pagewise_content", "pagewise_pages", "done", "raised"}
                     /\ pc = "raised" => raised.type = "WriteFailure"
               /\ loadLog[k].by = "extract_alto_links" =>
                     /\ pc = "raised"
                     /\ raised = [type |-> "LoadFailure", at |-> "extract_alto_links"]
                     /\ fs = <<>>
               /\ loadLog[k].by = "extract_metadata_from_mets" =>
                     /\ metadata = EmptyMetadata
                     /\ pc # "metadata"
                     /\ raised.at # "extract_metadata_from_mets"
               /\ loadLog[k].by = "extract_structure" =>
                     /\ structure = <<>>
                     /\ pc # "structure"
                     /\ raised.at # "extract_structure"

\* C3 witness: a run has completed and written its output although the
\* manifest failed to load for the metadata and for the structure and a page
\* failed to load.
C3_Witness ==
    /\ pc = "done"
    /\ fs # <<>>
    /\ \E k \in 1..Len(loadLog) : loadLog[k].by = "extract_all_texts" /\ ~loadLog[k].ok
    /\ \E k \in 1..Len(loadLog) : loadLog[k].by = "extract_metadata_from_mets" /\ ~loadLog[k].ok
    /\ \E k \in 1..Len(loadLog) : loadLog[k].by = "extract_structure" /\ ~loadLog[k].ok

\* C4 as stated: a run that ends with a write failure has written no file.
C4_NoOutputOnWriteFailure ==
    raised.type = "WriteFailure" => fs = <<>>

\* whether save_pagewise_output writes content.json
WritesContentJson == output_format = "json" /\ structure # <<>>

\* C4 as amended: a write failure aborts the run.  When a directory cannot be
\* created, or the one file of the combined output or content.json cannot be
\* opened, no file has been written.  When the file of page k cannot be opened
\* in per-page output, the files written before it remain: content.json if
\* the run writes one, then the files of pages 1..k-1, in that order.
C4_WriteFailureKeepsEarlierFiles ==
    raised.type = "WriteFailure" =>
        /\ pc = "raised"
        /\ raised.at \in {"makedirs", "save_full_output", "pagewise_makedirs",
                          "pagewise_content"} => fs = <<>>
        /\ raised.at = "pagewise_pages" =>
              LET c == IF WritesContentJson THEN 1 ELSE 0 IN
              /\ ~full
              /\ Len(fs) = c + (i - 1)
              /\ c = 1 => fs[1].path = ContentPath(PageDir(output_dir, mets_path))
              /\ \A k \in 1..(i - 1) :
                    /\ fs[c + k].path[Len(fs[c + k].path)]
                          = texts[k].page \o <<".">> \o Ext(output_format)
                    /\ output_format # "json" => fs[c + k].content = texts[k].text
        /\ full => fs = <<>>

\* C4 witness: per-page output was aborted at the file of the second page,
\* after the file of the first page was written.
C4_Witness ==
    /\ pc = "raised"
    /\ raised = [type |-> "WriteFailure", at |-> "pagewise_pages"]
    /\ i = 2
    /\ fs # <<>>

\* the output of a finished run in the structured shape: the records of the
\* combined file, or of content.json and the page files in the order written
JsonWritten == output_format = "json" /\ pc = "done"

\* C6 as stated: a structure-summary record is written exactly when the
\* structure list or the metadata is non-empty; it holds the metadata fields,
\* num_pages and the structure list; the page records follow, one per entry of
\* texts, in order, with order values from 1.
C6_SummaryIfStructureOrMetadata ==
    JsonWritten =>
        LET recs == IF full THEN fs[1].content ELSE [k \in 1..Len(fs) |-> fs[k].content]
            c == IF HasSummaryWithMetadata(structure, metadata) THEN 1 ELSE 0
        IN  /\ Len(recs) = c + Len(texts)
            /\ c = 1 =>
                  /\ DOMAIN recs[1] = {"metadata", "divs"}
                  /\ recs[1].divs = structure
                  /\ recs[1].metadata.title = metadata.title
                  /\ recs[1].metadata.author = metadata.author
                  /\ recs[1].metadata.year = metadata.year
                  /\ recs[1].metadata.vd_number = metadata.vd_number
                  /\ recs[1].metadata.num_pages = Len(texts)
            /\ \A k \in 1..Len(texts) :
                  /\ recs[c + k].page = texts[k].page
                  /\ recs[c + k].order = k
                  /\ recs[c + k].text = texts[k].text

\* C6 as amended: a structure record is written exactly when the structure
\* list is non-empty, whatever the metadata; it holds the structure list and
\* nothing else (under the key "structure" in the combined file, "content" in
\* content.json); the page records follow, one per entry of texts, in order,
\* with order values from 1 and the metadata fields in each.
C6_SummaryIffStructure ==
    JsonWritten =>
        LET recs == IF full THEN fs[1].content ELSE [k \in 1..Len(fs) |-> fs[k].content]
            c == IF structure # <<>> THEN 1 ELSE 0
        IN  /\ full => Len(fs) = 1
            /\ Len(recs) = c + Len(texts)
            /\ c = 1 =>
                  /\ DOMAIN recs[1] = {IF full THEN "structure" ELSE "content"}
                  /\ full => recs[1].structure = structure
                  /\ ~full => recs[1].content = structure
                  /\ ~full => fs[1].path = ContentPath(PageDir(output_dir, mets_path))
            /\ \A k \in 1..Len(texts) :
                  /\ "page" \in DOMAIN recs[c + k]
                  /\ recs[c + k].page = texts[k].page
                  /\ recs[c + k].order = k
                  /\ recs[c + k].text = texts[k].text
                  /\ recs[c + k].title = metadata.title
                  /\ recs[c + k].author = metadata.author
                  /\ recs[c + k].year = metadata.year
                  /\ recs[c + k].vd_number = metadata.vd_number

\* C6 witness: a finished structured run over two pages whose manifest has
\* metadata but no structure node.
C6_Witness ==
    /\ JsonWritten
    /\ structure = <<>>
    /\ metadata.author # <<>>
    /\ Len(texts) = 2
    /\ Len(fs) >= 1

\* the separator the property names for a shape
ClaimedSeparator ==
    IF output_format = "md" THEN <<"\n", "\n", "-", "-", "-", "\n", "\n">> ELSE <<"\n", "\n">>

\* where the text of page k starts in the combined output, less one
RECURSIVE ClaimedOffset(_)
ClaimedOffset(k) ==
    IF k = 1 THEN 0
    ELSE ClaimedOffset(k - 1) + Len(texts[k - 1].text) + Len(ClaimedSeparator)

\* C7: the combined plain or markup output is the page texts in order with
\* the shape's separator between consecutive pages and nowhere else: the text
\* of page k stands at its offset, the separator behind every page but the
\* last, and the output ends with the last page's text.
C7_JoinedWithSeparator ==
    (pc = "done" /\ full /\ output_format # "json") =>
        /\ Len(fs) = 1
        /\ LET out == fs[1].content
               n == Len(texts)
           IN  /\ n = 0 => out = <<>>
               /\ n > 0 => Len(out) = ClaimedOffset(n) + Len(texts[n].text)
               /\ \A k \in 1..n :
                     SubSeq(out, ClaimedOffset(k) + 1, ClaimedOffset(k) + Len(texts[k].text))
                         = texts[k].text
               /\ \A k \in 1..(n - 1) :
                     SubSeq(out, ClaimedOffset(k) + Len(texts[k].text) + 1, ClaimedOffset(k + 1))
                         = ClaimedSeparator

\* C7 witness: a finished combined markup run over two pages, the first with
\* text and the second empty because its load failed.
C7_Witness ==
    /\ pc = "done" /\ full /\ output_format = "md"
    /\ Len(texts) = 2
    /\ texts[1].text # <<>>
    /\ ~PageLoadLog[2].ok
    /\ fs # <<>>

\* C10 as stated: a finished run has loaded the manifest exactly once.
C10_ManifestLoadedOnce ==
    pc = "done" => Len(MetsLoadLog) = 1

\* C10 as amended: once locator extraction has returned, the manifest has been
\* loaded three times, by metadata, structure and locator extraction in that
\* order; the page resources are loaded after that, each locator once, in
\* locator order, and all of them before any file is written.
C10_ThreeManifestLoads ==
    /\ (pc \in {"pages"} \/ TextsReturned) =>
          /\ Len(MetsLoadLog) = 3
          /\ Len(loadLog) >= 3
          /\ loadLog[1].by = "extract_metadata_from_mets" /\ loadLog[1].source = "mets"
          /\ loadLog[2].by = "extract_structure" /\ loadLog[2].source = "mets"
          /\ loadLog[3].by = "extract_alto_links" /\ loadLog[3].source = "mets"
          /\ Len(loadLog) <= 3 + Len(alto_links)
          /\ \A k \in 1..(Len(loadLog) - 3) :
                /\ loadLog[3 + k].by = "extract_all_texts"
                /\ loadLog[3 + k].source = alto_links[k]
    /\ TextsReturned => Len(loadLog) = 3 + Len(alto_links)
    /\ fs # <<>> => TextsReturned

\* C10 witness: a finished run over two locators.
C10_Witness ==
    /\ pc = "done"
    /\ Len(alto_links) = 2
    /\ Len(loadLog) = 5

-----------------------------------------------------------------------------
(* SpecNorm: normalize_historical_characters applied to its own result. *)

InitNorm ==
    /\ text \in SeqUpTo(NormAlphabet, MaxLen)
    /\ normalized = <<>>
    /\ PipeIdle /\ LinksIdle /\ AltoIdle /\ MetaIdle

\* normalized[k] is the input normalised k times
Normalize ==
    /\ Len(normalized) < MaxApplications
    /\ normalized' = Append(normalized,
           normalize_historical_characters(
               IF normalized = <<>> THEN text ELSE normalized[Len(normalized)]))
    /\ UNCHANGED <<text, pipeVars, linkVars, altoVars, metaVars>>

NextNorm == Normalize

SpecNorm == InitNorm /\ [][NextNorm]_vars

\* C5: normalising an already normalised string changes nothing: every further
\* application of normalize_historical_characters returns the result of the
\* first one.
C5_Idempotent ==
    \A k \in 2..Len(normalized) : normalized[k] = normalized[1]

\* C5 witness: a string with a table glyph, a run of two whitespace characters
\* before a punctuation mark and trailing whitespace has been normalised twice,
\* and the first application changed it.
C5_Witness ==
    /\ Len(normalized) >= 2
    /\ Len(text) >= 4
    /\ \E x \in 1..(Len(text) - 2) :
          IsSpace(text[x]) /\ IsSpace(text[x + 1]) /\ IsPunct(text[x + 2])
    /\ normalized[1] # text

-----------------------------------------------------------------------------
(* SpecLinks: extract_alto_links on a manifest that loaded. *)

InitLinks ==
    /\ mets_files \in Manifests(MaxFiles)
    /\ links_result = [status |-> "idle", links |-> <<>>]
    /\ PipeIdle /\ NormIdle /\ AltoIdle /\ MetaIdle

ExtractAltoLinks ==
    /\ links_result.status = "idle"
    /\ links_result' = extract_alto_links(mets_files)
    /\ UNCHANGED <<mets_files, pipeVars, normVars, altoVars, metaVars>>

NextLinks == ExtractAltoLinks

SpecLinks == InitLinks /\ [][NextLinks]_vars

\* the file elements of the manifest that have a non-empty address
ValidEntries == {k \in 1..Len(mets_files) : mets_files[k].flocat /\ mets_files[k].href # <<>>}

\* the manifest position of the entry with address h
EntryOf(h) == CHOOSE k \in 1..Len(mets_files) : mets_files[k].href = h

\* the key the property orders by: the numeric value of the suffix when it is
\* numeric, the raw identifier otherwise
NumericSuffix(id) == IntParses(LastField(id))

\* C2: for a manifest with N full-text entries that have an address,
\* extract_alto_links returns N addresses; of two returned entries the earlier
\* one has the smaller numeric suffix when both suffixes are numeric and the
\* lexicographically smaller identifier when neither is, and entries with equal
\* keys keep manifest order; this holds for every mix of identifiers.
C2_SortedTotal ==
    links_result.status # "idle" =>
        /\ links_result.status = "ok"
        /\ Len(links_result.links) = Cardinality(ValidEntries)
        /\ \A x, j \in 1..Len(links_result.links) :
              x < j =>
                 LET a == EntryOf(links_result.links[x])
                     b == EntryOf(links_result.links[j])
                     ida == mets_files[a].ID
                     idb == mets_files[b].ID
                 IN  /\ (NumericSuffix(ida) /\ NumericSuffix(idb)) =>
                           /\ IntValue(LastField(ida)) <= IntValue(LastField(idb))
                           /\ IntValue(LastField(ida)) = IntValue(LastField(idb)) => a < b
                     /\ (~NumericSuffix(ida) /\ ~NumericSuffix(idb)) =>
                           /\ ~StrLess(idb, ida)
                           /\ ida = idb => a < b

-----------------------------------------------------------------------------
(* SpecAlto: extract_alto_text on a page resource that loaded. *)

InitAlto ==
    /\ \E ns \in Namespaces : alto_root \in AltoDocs(ns, MaxLines, MaxWords)
    /\ normalize \in BOOLEAN
    /\ alto_text = [status |-> "idle", text |-> <<>>]
    /\ PipeIdle /\ NormIdle /\ LinksIdle /\ MetaIdle

ExtractAltoText ==
    /\ alto_text.status = "idle"
    /\ alto_text' = [status |-> "done", text |-> extract_alto_text(alto_root, normalize)]
    /\ UNCHANGED <<alto_root, normalize, pipeVars, normVars, linkVars, metaVars>>

NextAlto == ExtractAltoText

SpecAlto == InitAlto /\ [][NextAlto]_vars

\* the text of a line as the property states it: the non-empty CONTENT values
\* of all its String children, in document order, joined by one space (and
\* normalised when normalisation is on)
ClaimedLineText(line_elem) ==
    LET words == [x \in 1..Len(line_elem.words) |-> line_elem.words[x].CONTENT]
        raw == Join(<<" ">>, SelectSeq(words, LAMBDA w : w # <<>>))
    IN  IF normalize THEN normalize_historical_characters(raw) ELSE raw

\* C8: the lines are those the qualified query finds or, when it finds none,
\* those the unqualified query finds; in both cases the page text is the
\* lines' texts joined by a newline, each line's text being its String
\* children's non-empty CONTENT values joined by one space; no line gives "".
C8_LinesAndWords ==
    alto_text.status = "done" =>
        LET found == FindTextLines(alto_root) IN
        /\ alto_text.text =
               Join(<<"\n">>, [x \in 1..Len(found) |-> ClaimedLineText(found[x])])
        /\ found = <<>> => alto_text.text = <<>>

-----------------------------------------------------------------------------
(* SpecMeta: extract_metadata_from_mets on a manifest that loaded. *)

InitMeta ==
    /\ mets_root \in MetsRoots
    /\ meta_result = [status |-> "idle", metadata |-> EmptyMetadata]
    /\ PipeIdle /\ NormIdle /\ LinksIdle /\ AltoIdle

ExtractMetadataFromMets ==
    /\ meta_result.status = "idle"
    /\ meta_result' = [status |-> "done", metadata |-> ExtractMetadata(mets_root)]
    /\ UNCHANGED <<mets_root, pipeVars, normVars, linkVars, altoVars>>

NextMeta == ExtractMetadataFromMets

SpecMeta == InitMeta /\ [][NextMeta]_vars

\* the first non-empty whitespace-trimmed text among the elements, in order
RECURSIVE FirstNonEmptyTrimmed(_)
FirstNonEmptyTrimmed(elems) ==
    IF elems = <<>> THEN <<>>
    ELSE IF Head(elems).present /\ Strip(Head(elems).text) # <<>>
         THEN Strip(Head(elems).text)
         ELSE FirstNonEmptyTrimmed(Tail(elems))

\* the typed identifier the property lets win: the first variant with text
ClaimedVariant == {k \in 1..3 : HasText(mets_root.identifiers[k])
                                  /\ \A j \in 1..(k - 1) : ~HasText(mets_root.identifiers[j])}

\* C9: title, author and year are the first non-empty trimmed text of the
\* primary path, then of the fallback path, so a primary element with empty or
\* whitespace-only text does not block the fallback; vd_number is the first of
\* vd16, vd17, vd18 that has text, prefixed with its upper-case label and a
\* space, and empty when none has.
C9_FirstNonEmpty ==
    meta_result.status = "done" =>
        LET m == meta_result.metadata IN
        /\ m.title = FirstNonEmptyTrimmed(<<mets_root.mods_title, mets_root.dc_title>>)
        /\ m.author = FirstNonEmptyTrimmed(<<mets_root.mods_displayForm, mets_root.dc_creator>>)
        /\ m.year = FirstNonEmptyTrimmed(<<mets_root.mods_dateIssued, mets_root.dc_date>>)
        /\ ClaimedVariant = {} => m.vd_number = <<>>
        /\ \A k \in ClaimedVariant :
              m.vd_number = UpperStr(vd_types[k]) \o <<" ">> \o Strip(mets_root.identifiers[k].text)

=============================================================================
